---- MODULE Spec2Model ----
(***************************************************************************)
(* State-machine model of a_memory-address/stack_heap.c: a program that    *)
(* places one int in static storage, one in automatic storage and one on   *)
(* the heap, prints the three addresses and releases the heap slot.        *)
(*                                                                         *)
(* The process state is the memory (a map from int-aligned addresses to    *)
(* int values), the addresses the loader and the activation record gave    *)
(* to global_var and stack_var, the pointer heap_var, the allocator's set  *)
(* of live blocks, the bytes written to stdout/stderr, and the position of *)
(* main (the source line of the next statement).  The program is run       *)
(* MaxRuns times in a row; each run is a fresh process.                    *)
(***************************************************************************)
EXTENDS Integers, Sequences, FiniteSets, TLC

VARIABLES
    pc,               \* source line of the next statement of main
    status,           \* "running", "exited" (main returned) or "signaled"
    exit_code,        \* <<>> while no exit code exists, <<c>> once main returned c
    mem,              \* memory: address -> int value
    addr_global_var,  \* &global_var
    addr_stack_var,   \* &stack_var
    heap_var,         \* the pointer variable heap_var
    live,             \* addresses of the heap blocks allocated and not yet freed
    stdout,           \* the text written to standard output, as tokens
    stderr,           \* the text written to standard error, as tokens
    trace,            \* the statements executed so far in this run, with the pointer each used
    run,              \* number of the current run of the program
    observed,         \* what the successful runs showed: run, names printed, exit code
    relocated         \* whether this run's objects lie elsewhere than the previous run's

vars == <<pc, status, exit_code, mem, addr_global_var, addr_stack_var, heap_var,
          live, stdout, stderr, trace, run, observed, relocated>>

----------------------------------------------------------------------------
(* Bounds of the model *)

\* number of int-sized, int-aligned addresses of the address space
NumSlots == 4

\* number of times the program is run one after the other
MaxRuns == 2

----------------------------------------------------------------------------
(* Program constants *)

\* sizeof(int) on the modelled platform
SizeofInt == 4

\* the null pointer, malloc's result when the allocation fails
NULL == 0

\* int global_var = 42;
GlobalVarInit == 42

\* int stack_var = 10;
StackVarInit == 10

\* *heap_var = 20;
HeapVarValue == 20

\* the addresses an int object can have
Addrs == {SizeofInt * i : i \in 1..NumSlots}

\* what a memory cell nobody has written yet may hold (indeterminate value)
Indeterminate == {0, 77}

----------------------------------------------------------------------------
(* printf("Address of <name>: %p\n", p) *)

HexDigit(d) ==
    <<"0", "1", "2", "3", "4", "5", "6", "7",
      "8", "9", "a", "b", "c", "d", "e", "f">>[d + 1]

RECURSIVE Hex(_)
Hex(n) ==
    IF n < 16 THEN <<HexDigit(n)>>
    ELSE Hex(n \div 16) \o <<HexDigit(n % 16)>>

\* %p as glibc prints it: "(nil)" for the null pointer, else 0x and hex digits
FormatP(p) ==
    IF p = NULL THEN <<"(nil)">> ELSE <<"0x">> \o Hex(p)

\* the tokens one printf call of main writes
Printf(name, p) ==
    <<"Address of ", name, ": ">> \o FormatP(p) \o <<"\n">>

\* the complete lines of a text: the tokens between newlines
RECURSIVE Lines(_)
Lines(text) ==
    IF \A i \in 1..Len(text) : text[i] # "\n" THEN <<>>
    ELSE LET n == CHOOSE i \in 1..Len(text) :
                      /\ text[i] = "\n"
                      /\ \A j \in 1..(i - 1) : text[j] # "\n"
         IN  <<SubSeq(text, 1, n - 1)>> \o Lines(SubSeq(text, n + 1, Len(text)))

\* the text after the last newline (an unfinished line)
RECURSIVE Rest(_)
Rest(text) ==
    IF \A i \in 1..Len(text) : text[i] # "\n" THEN text
    ELSE LET n == CHOOSE i \in 1..Len(text) :
                      /\ text[i] = "\n"
                      /\ \A j \in 1..(i - 1) : text[j] # "\n"
         IN  Rest(SubSeq(text, n + 1, Len(text)))

\* the variable names on the lines of a text, in order
Names(text) == [i \in 1..Len(Lines(text)) |-> Lines(text)[i][2]]

----------------------------------------------------------------------------
(* The allocator *)

\* the objects alive in the process: the static int, the automatic int of
\* main's activation, and the heap blocks
LiveObjects == {addr_global_var, addr_stack_var} \cup live

\* malloc(sizeof(int)) returns NULL, or a block that overlaps no live object
MallocResults == {NULL} \cup (Addrs \ LiveObjects)

----------------------------------------------------------------------------
(* main *)

\* NextLine with lines 11 and 12 exchanged: heap_var is printed first
NextLine_swapped(l) ==
    CASE l = 7  -> 8
      [] l = 8  -> 9
      [] l = 9  -> 12
      [] l = 12 -> 11
      [] l = 11 -> 13
      [] l = 13 -> 15
      [] l = 15 -> 16
      [] l = 16 -> 17

\* NextLine with line 15 left out: main returns without calling free
NextLine_noFree(l) ==
    CASE l = 7  -> 8
      [] l = 8  -> 9
      [] l = 9  -> 11
      [] l = 11 -> 12
      [] l = 12 -> 13
      [] l = 13 -> 16
      [] l = 15 -> 16
      [] l = 16 -> 17

\* NextLine with line 15 moved up: the slot is freed right after the store
NextLine_freeFirst(l) ==
    CASE l = 7  -> 8
      [] l = 8  -> 9
      [] l = 9  -> 15
      [] l = 15 -> 11
      [] l = 11 -> 12
      [] l = 12 -> 13
      [] l = 13 -> 16
      [] l = 16 -> 17

\* the statement main executes after the statement at line l
NextLine(l) ==
    CASE l = 7  -> 8
      [] l = 8  -> 9
      [] l = 9  -> 11
      [] l = 11 -> 12
      [] l = 12 -> 13
      [] l = 13 -> 15
      [] l = 15 -> 16
      [] l = 16 -> 17

\* line 9 storing through &stack_var
StoreTarget_stack == addr_stack_var

\* line 9 storing through &global_var
StoreTarget_global == addr_global_var

\* the pointer line 9 stores through
StoreTarget == heap_var

\* line 12 printing &stack_var a second time
HeapPrintArg_stack == addr_stack_var

\* the pointer line 12 prints
HeapPrintArg == heap_var

\* the pointer line 15 releases
FreeArg == heap_var

\* main returning the value of stack_var
ReturnValue_stack == mem[addr_stack_var]

\* main returning non-zero when the allocation failed
ReturnValue_checked == IF heap_var = NULL THEN 1 ELSE 0

\* main returning a value computed from the address it obtained
ReturnValue_address == heap_var

\* the value main returns
ReturnValue == 0

Event(l, op, p) == [line |-> l, op |-> op, ptr |-> p]

\* the memories a process can start with: global_var holds its initializer,
\* every other cell holds the same indeterminate fill value
StartMems(g) ==
    {[a \in Addrs |-> IF a = g THEN GlobalVarInit ELSE v] : v \in Indeterminate}

\* the state of the process at the entry of main: the loader has placed and
\* initialized global_var, the activation record of main holds stack_var and
\* heap_var, both uninitialized
Init ==
    /\ pc = 7
    /\ status = "running"
    /\ exit_code = <<>>
    /\ addr_global_var \in Addrs
    /\ addr_stack_var \in Addrs \ {addr_global_var}
    /\ mem \in StartMems(addr_global_var)
    /\ heap_var \in Addrs \cup {NULL}
    /\ live = {}
    /\ stdout = <<>>
    /\ stderr = <<>>
    /\ trace = <<>>
    /\ run = 1
    /\ observed = {}
    /\ relocated = FALSE

\* line 7: int stack_var = 10;
InitStackVar ==
    /\ status = "running" /\ pc = 7
    /\ mem' = [mem EXCEPT ![addr_stack_var] = StackVarInit]
    /\ trace' = Append(trace, Event(7, "store", addr_stack_var))
    /\ pc' = NextLine(7)
    /\ UNCHANGED <<status, exit_code, addr_global_var, addr_stack_var, heap_var,
                   live, stdout, stderr, run, observed, relocated>>

\* line 8: int *heap_var = malloc(sizeof(int));
Malloc ==
    /\ status = "running" /\ pc = 8
    /\ \E p \in MallocResults :
          /\ heap_var' = p
          /\ live' = IF p = NULL THEN live ELSE live \cup {p}
          /\ trace' = Append(trace, Event(8, "malloc", p))
    /\ pc' = NextLine(8)
    /\ UNCHANGED <<status, exit_code, mem, addr_global_var, addr_stack_var,
                   stdout, stderr, run, observed, relocated>>

\* line 9: *heap_var = 20;  A store through a pointer to no live object is
\* undefined: the process is killed by SIGSEGV, or it goes on (the store
\* lands in whatever is at that address, if anything).
StoreHeapVar ==
    /\ status = "running" /\ pc = 9
    /\ trace' = Append(trace, Event(9, "store", StoreTarget))
    /\ IF StoreTarget \in LiveObjects
       THEN /\ mem' = [mem EXCEPT ![StoreTarget] = HeapVarValue]
            /\ pc' = NextLine(9)
            /\ status' = status
       ELSE \/ /\ status' = "signaled"
               /\ UNCHANGED <<mem, pc>>
            \/ /\ mem' = IF StoreTarget \in Addrs
                         THEN [mem EXCEPT ![StoreTarget] = HeapVarValue]
                         ELSE mem
               /\ pc' = NextLine(9)
               /\ status' = status
    /\ UNCHANGED <<exit_code, addr_global_var, addr_stack_var, heap_var,
                   live, stdout, stderr, run, observed, relocated>>

\* line 11: printf("Address of stack_var: %p\n", (void*)&stack_var);
PrintStackVar ==
    /\ status = "running" /\ pc = 11
    /\ stdout' = stdout \o Printf("stack_var", addr_stack_var)
    /\ trace' = Append(trace, Event(11, "print", addr_stack_var))
    /\ pc' = NextLine(11)
    /\ UNCHANGED <<status, exit_code, mem, addr_global_var, addr_stack_var,
                   heap_var, live, stderr, run, observed, relocated>>

\* line 12: printf("Address of heap_var: %p\n", (void*)heap_var);
PrintHeapVar ==
    /\ status = "running" /\ pc = 12
    /\ stdout' = stdout \o Printf("heap_var", HeapPrintArg)
    /\ trace' = Append(trace, Event(12, "print", HeapPrintArg))
    /\ pc' = NextLine(12)
    /\ UNCHANGED <<status, exit_code, mem, addr_global_var, addr_stack_var,
                   heap_var, live, stderr, run, observed, relocated>>

\* line 13: printf("Address of global_var: %p\n", (void*)&global_var);
PrintGlobalVar ==
    /\ status = "running" /\ pc = 13
    /\ stdout' = stdout \o Printf("global_var", addr_global_var)
    /\ trace' = Append(trace, Event(13, "print", addr_global_var))
    /\ pc' = NextLine(13)
    /\ UNCHANGED <<status, exit_code, mem, addr_global_var, addr_stack_var,
                   heap_var, live, stderr, run, observed, relocated>>

\* line 15: free(heap_var);  free(NULL) does nothing; freeing a live block
\* ends its lifetime and leaves its contents indeterminate; freeing anything
\* else is undefined (the allocator aborts the process, or goes on).
Free ==
    /\ status = "running" /\ pc = 15
    /\ trace' = Append(trace, Event(15, "free", FreeArg))
    /\ IF FreeArg \in live
       THEN /\ live' = live \ {FreeArg}
            /\ \E v \in Indeterminate \cup {mem[FreeArg]} :
                  mem' = [mem EXCEPT ![FreeArg] = v]
            /\ pc' = NextLine(15)
            /\ status' = status
       ELSE /\ UNCHANGED <<live, mem>>
            /\ IF FreeArg = NULL
               THEN pc' = NextLine(15) /\ status' = status
               ELSE \/ status' = "signaled" /\ pc' = pc
                    \/ pc' = NextLine(15) /\ status' = status
    /\ UNCHANGED <<exit_code, addr_global_var, addr_stack_var, heap_var,
                   stdout, stderr, run, observed, relocated>>

\* the malloc call of this run returned a slot
AllocOk == \E i \in 1..Len(trace) : trace[i].op = "malloc" /\ trace[i].ptr # NULL

\* line 16: return 0;
Return ==
    /\ status = "running" /\ pc = 16
    /\ status' = "exited"
    /\ exit_code' = <<ReturnValue>>
    /\ trace' = Append(trace, Event(16, "return", NULL))
    /\ pc' = NextLine(16)
    /\ observed' = IF AllocOk
                   THEN observed \cup {[run |-> run, names |-> Names(stdout),
                                        code |-> exit_code']}
                   ELSE observed
    /\ UNCHANGED <<mem, addr_global_var, addr_stack_var, heap_var, live,
                   stdout, stderr, run, relocated>>

\* the program is run again: a new process, with nothing kept of the old one
Exec ==
    /\ status # "running"
    /\ run < MaxRuns
    /\ run' = run + 1
    /\ pc' = 7
    /\ status' = "running"
    /\ exit_code' = <<>>
    /\ addr_global_var' \in Addrs
    /\ addr_stack_var' \in Addrs \ {addr_global_var'}
    /\ relocated' = (<<addr_global_var', addr_stack_var'>> # <<addr_global_var, addr_stack_var>>)
    /\ mem' \in StartMems(addr_global_var')
    /\ heap_var' \in Addrs \cup {NULL}
    /\ live' = {}
    /\ stdout' = <<>>
    /\ stderr' = <<>>
    /\ trace' = <<>>
    /\ UNCHANGED observed

Step ==
    \/ InitStackVar
    \/ Malloc
    \/ StoreHeapVar
    \/ PrintStackVar
    \/ PrintHeapVar
    \/ PrintGlobalVar
    \/ Free
    \/ Return

Next == Step \/ Exec

Spec == Init /\ [][Next]_vars

\* a running process always executes its next statement
FairSpec == Spec /\ WF_vars(Step)

----------------------------------------------------------------------------
(* Properties *)

\* the events of the current run's trace with operation op
Calls(op) == SelectSeq(trace, LAMBDA e : e.op = op)

\* the address part of a printed line: what follows "Address of ", name, ": "
AddressText(line) == SubSeq(line, 4, Len(line))

\* how many printf statements main has executed when it stands at line l
PrintsBefore(l) ==
    CASE l <= 11 -> 0
      [] l = 12  -> 1
      [] l = 13  -> 2
      [] l >= 15 -> 3

\* C1: in a run whose allocation succeeded, standard output holds only
\* complete lines of the form "Address of <name>: <address>"; the i-th line
\* names the i-th of stack_var, heap_var, global_var; there is one line per
\* printf executed so far, so exactly three, in that order, once main returned.
C1_ThreeLinesInOrder ==
    AllocOk =>
        LET ls == Lines(stdout) IN
        /\ Rest(stdout) = <<>>
        /\ Len(ls) = PrintsBefore(pc)
        /\ \A i \in 1..Len(ls) :
              /\ Len(ls[i]) > 3
              /\ ls[i][1] = "Address of "
              /\ ls[i][2] = <<"stack_var", "heap_var", "global_var">>[i]
              /\ ls[i][3] = ": "
        /\ status = "exited" => Len(ls) = 3

C1_Witness ==
    /\ AllocOk
    /\ status = "exited"
    /\ Names(stdout) = <<"stack_var", "heap_var", "global_var">>

C3_AddressesDistinct ==
    AllocOk =>
        LET ls == Lines(stdout) IN
        /\ \A i, j \in 1..Len(ls) :
              i # j => AddressText(ls[i]) # AddressText(ls[j])
        /\ (status = "running" /\ pc \in {11, 12, 13, 15}) =>
              /\ Cardinality({addr_stack_var, heap_var, addr_global_var}) = 3
              /\ {addr_stack_var, heap_var, addr_global_var} \subseteq LiveObjects

C3_Witness ==
    /\ AllocOk
    /\ Len(Lines(stdout)) = 3
    /\ AddressText(Lines(stdout)[2]) = FormatP(heap_var)
    /\ Len(FormatP(heap_var)) > 2

\* C4: in a run whose allocation succeeded, in every state after the store of
\* line 9 and before the release of line 15, the heap slot holds 20,
\* stack_var holds 10 and global_var holds 42.
C4_ValuesHold ==
    (/\ AllocOk
     /\ status = "running"
     /\ Len(Calls("store")) = 2
     /\ Len(Calls("free")) = 0)
    => /\ mem[heap_var] = 20
       /\ mem[addr_stack_var] = 10
       /\ mem[addr_global_var] = 42

C4_Witness ==
    /\ AllocOk
    /\ pc = 15
    /\ mem[heap_var] = 20
    /\ \E i \in 1..Len(trace) : trace[i].line = 9

\* C5: a run whose allocation succeeded terminates, by main returning 0:
\* once malloc has returned a slot, the running process reaches the state
\* "exited" with exit code 0 (a new run starts only after the process has
\* ended), and it never ends in another way or with another code.
C5_ExitsWithSuccess ==
    /\ [](AllocOk => /\ status \in {"running", "exited"}
                     /\ (status = "exited" => exit_code = <<0>>)
                     /\ (status = "running" => exit_code = <<>>))
    /\ (AllocOk /\ status = "running") ~> (AllocOk /\ status = "exited" /\ exit_code = <<0>>)

C5_Witness ==
    /\ AllocOk
    /\ status = "exited"
    /\ exit_code = <<0>>
    /\ pc = 17

\* C6: main does not check the result of malloc: from the state in which
\* malloc has just returned NULL, the next step is the store of line 9
\* through that null pointer; nothing is ever written to standard error; and
\* the only exit code main produces is 0 (a run ends "exited" with code 0 or
\* "signaled" with no exit code of main).
C6_AllocationUnchecked ==
    /\ [](/\ stderr = <<>>
          /\ status \in {"running", "exited", "signaled"}
          /\ (status = "exited" => exit_code = <<0>>)
          /\ (status # "exited" => exit_code = <<>>))
    /\ [][(/\ status = "running"
           /\ Len(trace) > 0
           /\ trace[Len(trace)] = Event(8, "malloc", NULL))
          => trace' = Append(trace, Event(9, "store", NULL))]_vars

C6_Witness ==
    /\ heap_var = NULL
    /\ Len(trace) = 3
    /\ trace[2] = Event(8, "malloc", NULL)
    /\ trace[3] = Event(9, "store", NULL)
    /\ status = "signaled"

\* C7: after free(heap_var) the only statement main executes is the return:
\* every store and every printf comes before the free in the trace, and a
\* run that returned stored through heap_var, printed heap_var and freed
\* heap_var, in that order.
C7_NoUseAfterFree ==
    /\ \A i, j \in 1..Len(trace) :
          (i < j /\ trace[i].op = "free") => trace[j].op = "return"
    /\ status = "exited" =>
          \E i, j, k \in 1..Len(trace) :
              /\ i < j /\ j < k
              /\ trace[i] = Event(9, "store", heap_var)
              /\ trace[j] = Event(12, "print", heap_var)
              /\ trace[k] = Event(15, "free", heap_var)

C7_Witness ==
    /\ AllocOk
    /\ status = "exited"
    /\ trace[Len(trace) - 1] = Event(15, "free", heap_var)
    /\ heap_var \notin live

\* C8: global_var holds 42 in every reachable state, and the only statement
\* of main that uses its address is the printf of line 13: no store and no
\* free is applied to it.
C8_GlobalNeverWritten ==
    /\ mem[addr_global_var] = 42
    /\ \A i \in 1..Len(trace) :
          trace[i].ptr = addr_global_var => trace[i] = Event(13, "print", addr_global_var)

C8_Witness ==
    /\ status = "exited"
    /\ \E i \in 1..Len(trace) : trace[i] = Event(13, "print", addr_global_var)
    /\ \E i \in 1..Len(trace) : trace[i].op = "store" /\ trace[i].ptr # NULL

\* C9: any two runs whose allocation succeeded show the same sequence of
\* variable names, stack_var, heap_var, global_var, and the same exit code 0,
\* wherever the loader and the allocator placed the objects.
C9_RunsObservationallyEqual ==
    /\ \A o1, o2 \in observed : o1.names = o2.names /\ o1.code = o2.code
    /\ \A o \in observed :
          /\ o.names = <<"stack_var", "heap_var", "global_var">>
          /\ o.code = <<0>>

C9_Witness ==
    /\ relocated
    /\ \E o1, o2 \in observed : o1.run # o2.run

====
